---- MODULE Spec2Model ----
(***************************************************************************)
(* PTAContestGenerator (src/src/pta_tool_class.py): the sequential         *)
(* pipeline that fetches a problem set from the PTA web API and builds a   *)
(* contest.xml document.  The generator object's fields are the state; one *)
(* action per pipeline step (a step ends where the next request to the     *)
(* server starts); the server's responses are the inputs of the actions.   *)
(*                                                                         *)
(* Representation of the data:                                             *)
(*   - a JSON object is a record that may lack fields, read with Get;      *)
(*   - Python's None is the value None, "falsy" is None or "";             *)
(*   - an ISO-8601 string is [t |-> instant, suffix |-> "Z" | ""], the     *)
(*     instant counted in ticks of 1/TicksPerSec second;                   *)
(*   - a free-text name from the server is a sequence of chunks, a chunk   *)
(*     of whitespace being " ", so that str.strip() is computed;           *)
(*   - an XML element is a record with its tag and its children's texts,   *)
(*     the document root is the sequence of its children.                  *)
(***************************************************************************)
EXTENDS Integers, Sequences, FiniteSets, TLC

VARIABLES
    pc,                       \* position inside generate_contest_xml, "idle" between calls
    selected_problem_set_id,  \* self.selected_problem_set_id
    contest_root,             \* self.contest_root: the children of <contest>
    label_map,                \* self.label_map: problem id -> [xml_id, letter]
    exam_info,                \* self.exam_info: the last metadata response body
    contest_start_dt,         \* self.contest_start_dt
    exam_by_user_id,          \* self._exam_by_user_id
    student_user_by_id,       \* self._student_user_by_id
    page,                     \* _process_teams: local page
    before,                   \* _process_submissions: local before
    counter,                  \* _process_submissions: local counter
    output_file,              \* the file at output_path, and the document in it
    error_dump,               \* pta_error_dump.html, and the response dumped in it
    result,                   \* how the last call of the public API ended
    calls,                    \* number of generate_contest_xml calls so far
    io_log                    \* the requests, responses and file writes of the current call

vars == <<pc, selected_problem_set_id, contest_root, label_map, exam_info,
          contest_start_dt, exam_by_user_id, student_user_by_id, page, before,
          counter, output_file, error_dump, result, calls, io_log>>

-----------------------------------------------------------------------------
(* Bounds of the model *)

MaxCalls == 2
MaxProblems == 2
MaxRosterPages == 2
MaxSubPages == 2
MaxPageLen == 2

(* Program constants *)

TicksPerSec == 2
DefaultDuration == 18000
RosterLimit == 20
SubmissionLimit == 100
ProblemLimit == 500

-----------------------------------------------------------------------------
(* Python values *)

None == "<None>"

Truthy(v) == v \notin {None, ""}

Get(o, k, d) == IF k \in DOMAIN o THEN o[k] ELSE d

EmptyDict == [k \in {} |-> None]

Put(m, k, v) == [x \in DOMAIN m \cup {k} |-> IF x = k THEN v ELSE m[x]]

Update(m, n) == [x \in DOMAIN m \cup DOMAIN n |-> IF x \in DOMAIN n THEN n[x] ELSE m[x]]

Last(s) == s[Len(s)]

\* int(x) of a float given in ticks: truncation toward zero
IntTrunc(ticks) ==
    IF ticks >= 0 THEN ticks \div TicksPerSec ELSE -((-ticks) \div TicksPerSec)

\* f"{n:02d}" for 0 <= n
Pad2(n) == IF n < 10 THEN "0" \o ToString(n) ELSE ToString(n)

\* f"{x:.1f}" and f"{x:.2f}" of a float given in ticks (half seconds)
Fmt1(ticks) ==
    ToString(ticks \div TicksPerSec) \o (IF ticks % TicksPerSec = 0 THEN ".0" ELSE ".5")

Fmt2(ticks) ==
    ToString(ticks \div TicksPerSec) \o (IF ticks % TicksPerSec = 0 THEN ".00" ELSE ".50")

\* chr(c) for the capital letters
Alphabet ==
    <<"A", "B", "C", "D", "E", "F", "G", "H", "I", "J", "K", "L", "M",
      "N", "O", "P", "Q", "R", "S", "T", "U", "V", "W", "X", "Y", "Z">>

Chr(c) == Alphabet[c - 64]

\* str.strip() of a text given as chunks, and the text as one string
RECURSIVE LStrip(_)
LStrip(s) == IF s # <<>> /\ Head(s) = " " THEN LStrip(Tail(s)) ELSE s

RECURSIVE RStrip(_)
RStrip(s) == IF s # <<>> /\ Last(s) = " " THEN RStrip(SubSeq(s, 1, Len(s) - 1)) ELSE s

Strip(s) == RStrip(LStrip(s))

RECURSIVE Text(_)
Text(s) == IF s = <<>> THEN "" ELSE Head(s) \o Text(Tail(s))

-----------------------------------------------------------------------------
(* __init__.  Nothing reads contest_root, contest_start_dt or the two roster *)
(* maps before generate_contest_xml has set them: their "not yet set" is the *)
(* empty value of their type.                                                *)

organization == "HBUE"
region_id == "1"

compiler_map ==
    [c \in {"GCC", "CLANG", "GXX", "CLANGXX", "C++", "JAVA", "PYTHON3", "PYPY3"} |->
        CASE c \in {"GCC", "CLANG"} -> "1"
          [] c \in {"GXX", "CLANGXX", "C++"} -> "2"
          [] c = "JAVA" -> "3"
          [] OTHER -> "4"]

result_map ==
    [s \in {"ACCEPTED", "WRONG_ANSWER", "TIME_LIMIT_EXCEEDED", "COMPILE_ERROR",
            "SEGMENTATION_FAULT", "FLOAT_POINT_EXCEPTION", "MEMORY_LIMIT_EXCEEDED",
            "NON_ZERO_EXIT_CODE", "RUNTIME_ERROR", "PRESENTATION_ERROR",
            "OUTPUT_LIMIT_EXCEEDED"} |->
        CASE s = "ACCEPTED" -> "AC"
          [] s = "WRONG_ANSWER" -> "WA"
          [] s = "TIME_LIMIT_EXCEEDED" -> "TLE"
          [] s = "COMPILE_ERROR" -> "CE"
          [] s = "SEGMENTATION_FAULT" -> "SF"
          [] s = "FLOAT_POINT_EXCEPTION" -> "FPE"
          [] s = "MEMORY_LIMIT_EXCEEDED" -> "MLE"
          [] s = "NON_ZERO_EXIT_CODE" -> "NZEC"
          [] s = "RUNTIME_ERROR" -> "RE"
          [] s = "PRESENTATION_ERROR" -> "PE"
          [] OTHER -> "OLE"]

Init ==
    /\ pc = "idle"
    /\ selected_problem_set_id = None
    /\ contest_root = <<>>
    /\ label_map = EmptyDict
    /\ exam_info = EmptyDict
    /\ contest_start_dt = [t |-> 0, aware |-> TRUE]
    /\ exam_by_user_id = EmptyDict
    /\ student_user_by_id = EmptyDict
    /\ page = 0
    /\ before = None
    /\ counter = 1
    /\ output_file = [exists |-> FALSE, root |-> <<>>]
    /\ error_dump = [exists |-> FALSE]
    /\ result = "none"
    /\ calls = 0
    /\ io_log = <<>>

-----------------------------------------------------------------------------
(* _safe_request *)

\* mutant: the content type is looked at before the status
M_SafeRequestJsonFirst(resp) ==
    IF resp.kind = "exception" THEN "PTAAPIError"
    ELSE IF resp.status # 200 \/ ~resp.json
         THEN IF ~resp.json THEN "PTAAPIError"
              ELSE IF resp.status = 401 THEN "PTAAuthError" ELSE "PTAAPIError"
         ELSE "ok"

\* the exception _safe_request raises on a response, or "ok"
SafeRequest(resp) ==
    IF resp.kind = "exception" THEN "PTAAPIError"
    ELSE IF resp.status # 200 \/ ~resp.json
         THEN IF resp.status = 401 THEN "PTAAuthError" ELSE "PTAAPIError"
         ELSE "ok"

\* pta_error_dump.html after the request
DumpAfter(resp) ==
    IF resp.kind = "http" /\ (resp.status # 200 \/ ~resp.json)
    THEN [exists |-> TRUE, status |-> resp.status, json |-> resp.json]
    ELSE error_dump

Request(url, params, resp) == [op |-> "GET", url |-> url, params |-> params, resp |-> resp]

\* a request that fails: the exception leaves generate_contest_xml
RaiseFrom(url, params, resp) ==
    /\ SafeRequest(resp) # "ok"
    /\ io_log' = Append(io_log, Request(url, params, resp))
    /\ error_dump' = DumpAfter(resp)
    /\ result' = SafeRequest(resp)
    /\ pc' = "idle"

Ok(body) == [kind |-> "http", status |-> 200, json |-> TRUE, body |-> body]

-----------------------------------------------------------------------------
(* select_problem_set *)

SelectProblemSet(E) ==
    /\ pc = "idle"
    /\ \E problem_set_id \in E.problem_set_ids, resp \in E.failures \cup {Ok(EmptyDict)} :
        /\ selected_problem_set_id' = problem_set_id
        /\ io_log' = <<Request("exams", EmptyDict, resp)>>
        /\ error_dump' = DumpAfter(resp)
        /\ result' = IF SafeRequest(resp) = "ok" THEN "selected" ELSE SafeRequest(resp)
    /\ UNCHANGED <<pc, contest_root, label_map, exam_info, contest_start_dt,
                   exam_by_user_id, student_user_by_id, page, before, counter,
                   output_file, calls>>

-----------------------------------------------------------------------------
(* generate_contest_xml: the precondition and _init_xml_structure *)

\* mutant: the document of the previous call is kept
M_GenerateKeepsRoot(E) ==
    /\ pc = "idle"
    /\ calls < E.max_calls
    /\ calls' = calls + 1
    /\ io_log' = <<>>
    /\ IF ~Truthy(selected_problem_set_id)
       THEN /\ result' = "ValueError"
            /\ UNCHANGED pc
       ELSE /\ result' = "running"
            /\ pc' = "exam_info"
    /\ UNCHANGED <<selected_problem_set_id, contest_root, label_map, exam_info,
                   contest_start_dt, exam_by_user_id, student_user_by_id, page, before,
                   counter, output_file, error_dump>>

GenerateContestXml(E) ==
    /\ pc = "idle"
    /\ calls < E.max_calls
    /\ calls' = calls + 1
    /\ io_log' = <<>>
    /\ IF ~Truthy(selected_problem_set_id)
       THEN /\ result' = "ValueError"
            /\ UNCHANGED <<pc, contest_root>>
       ELSE /\ result' = "running"
            /\ contest_root' = <<>>
            /\ pc' = "exam_info"
    /\ UNCHANGED <<selected_problem_set_id, label_map, exam_info, contest_start_dt,
                   exam_by_user_id, student_user_by_id, page, before, counter,
                   output_file, error_dump>>

-----------------------------------------------------------------------------
(* _process_exam_info *)

DefaultTime == [t |-> 0, suffix |-> "Z"]

parse_time(time_str) == [t |-> time_str.t, aware |-> time_str.suffix # ""]

\* duration_sec after the "double insurance" block; end_dt - start_dt raises
\* TypeError when exactly one of the two is timezone-aware
DurationSec(problem_set, start_dt, end_dt) ==
    LET duration_sec == Get(problem_set, "duration", 0)
    IN  IF duration_sec <= 0
        THEN IF start_dt.aware = end_dt.aware
             THEN IntTrunc(end_dt.t - start_dt.t)
             ELSE DefaultDuration
        ELSE duration_sec

\* the H:MM:SS text, by two divmod
DurationStr(duration_sec) ==
    LET m0 == duration_sec \div 60
        s  == duration_sec % 60
        h  == m0 \div 60
        m  == m0 % 60
    IN  ToString(h) \o ":" \o Pad2(m) \o ":" \o Pad2(s)

InfoNode(problem_set) ==
    LET start_dt == parse_time(Get(problem_set, "startAt", DefaultTime))
        end_dt   == parse_time(Get(problem_set, "endAt", DefaultTime))
    IN  [tag |-> "info",
         title |-> Get(problem_set, "name", "PTA Contest"),
         short_title |-> Get(problem_set, "name", "PTA Contest"),
         contest_id |-> Get(problem_set, "id", "0"),
         starttime |-> Fmt1(start_dt.t),
         length |-> DurationStr(DurationSec(problem_set, start_dt, end_dt)),
         penalty |-> "20",
         started |-> "False",
         scoreboard_freeze_length |-> "1:00:00"]

ProcessExamInfo(E) ==
    /\ pc = "exam_info"
    /\ \E resp \in E.failures \cup {Ok(b) : b \in E.exam_infos} :
        IF SafeRequest(resp) # "ok"
        THEN /\ RaiseFrom("problem-set", EmptyDict, resp)
             /\ UNCHANGED <<exam_info, contest_root, contest_start_dt>>
        ELSE LET problem_set == Get(resp.body, "problemSet", EmptyDict)
             IN  /\ io_log' = Append(io_log, Request("problem-set", EmptyDict, resp))
                 /\ exam_info' = resp.body
                 /\ contest_start_dt' =
                        [t |-> parse_time(Get(problem_set, "startAt", DefaultTime)).t,
                         aware |-> TRUE]
                 /\ contest_root' = Append(contest_root, InfoNode(problem_set))
                 /\ pc' = "static"
                 /\ UNCHANGED <<error_dump, result>>
    /\ UNCHANGED <<selected_problem_set_id, label_map, exam_by_user_id,
                   student_user_by_id, page, before, counter, output_file, calls>>

-----------------------------------------------------------------------------
(* _add_static_nodes *)

judgements_conf ==
    << <<"1", "AC", "ACCEPTED", "true", "false">>,
       <<"2", "SF", "SEGMENTATION_FAULT", "false", "true">>,
       <<"3", "WA", "WRONG_ANSWER", "false", "true">>,
       <<"4", "TLE", "TIME_LIMIT_EXCEEDED", "false", "true">>,
       <<"5", "CE", "COMPILE_ERROR", "false", "false">>,
       <<"6", "FPE", "FLOAT_POINT_EXCEPTION", "false", "true">>,
       <<"7", "MLE", "MEMORY_LIMIT_EXCEEDED", "false", "true">>,
       <<"8", "NZEC", "NON_ZERO_EXIT_CODE", "false", "true">>,
       <<"9", "RE", "RUNTIME_ERROR", "false", "true">>,
       <<"10", "PE", "PRESENTATION_ERROR", "false", "true">>,
       <<"11", "OLE", "OUTPUT_LIMIT_EXCEEDED", "false", "true">> >>

languages == << <<"1", "c">>, <<"2", "c++">>, <<"3", "java">>, <<"4", "python">> >>

StaticNodes ==
    <<[tag |-> "region", external_id |-> region_id, name |-> organization]>>
    \o [i \in 1..Len(judgements_conf) |->
            [tag |-> "judgement",
             id |-> judgements_conf[i][1],
             acronym |-> judgements_conf[i][2],
             name |-> judgements_conf[i][3],
             solved |-> judgements_conf[i][4],
             penalty |-> judgements_conf[i][5]]]
    \o [i \in 1..Len(languages) |->
            [tag |-> "language", id |-> languages[i][1], name |-> languages[i][2]]]

AddStaticNodes ==
    /\ pc = "static"
    /\ contest_root' = contest_root \o StaticNodes
    /\ pc' = "problems"
    /\ UNCHANGED <<selected_problem_set_id, label_map, exam_info, contest_start_dt,
                   exam_by_user_id, student_user_by_id, page, before, counter,
                   output_file, error_dump, result, calls, io_log>>

-----------------------------------------------------------------------------
(* _process_problems *)

\* mutant: the letter is taken one too far
M_ProblemLabelShifted(idx) == [xml_id |-> ToString(idx + 1), letter |-> Chr(65 + idx + 1)]

\* the xml id and the letter of the problem at index idx of the listing
ProblemLabel(idx) == [xml_id |-> ToString(idx + 1), letter |-> Chr(65 + idx)]

\* the for loop, from index idx on
RECURSIVE ProblemsLoop(_, _, _, _)
ProblemsLoop(problems, idx, root, map) ==
    IF idx >= Len(problems)
    THEN [root |-> root, label_map |-> map]
    ELSE LET p     == problems[idx + 1]
             p_id  == Get(p, "id", None)
             label == ProblemLabel(idx)
             node  == [tag |-> "problem",
                       id |-> label.xml_id,
                       letter |-> label.letter,
                       name |-> "Problem " \o label.letter]
         IN  ProblemsLoop(problems, idx + 1, Append(root, node), Put(map, p_id, label))

ProblemsParams == [problem_type |-> "PROGRAMMING", page |-> 0, limit |-> ProblemLimit]

\* on success _process_teams is entered: its locals and the two maps are set
ProcessProblems(E) ==
    /\ pc = "problems"
    /\ \E resp \in E.failures \cup {Ok(b) : b \in E.listings} :
        IF SafeRequest(resp) # "ok"
        THEN /\ RaiseFrom("problems", ProblemsParams, resp)
             /\ UNCHANGED <<contest_root, label_map, page, exam_by_user_id,
                            student_user_by_id>>
        ELSE LET problems == Get(resp.body, "problemSetProblems", <<>>)
                 done     == ProblemsLoop(problems, 0, contest_root, label_map)
             IN  /\ io_log' = Append(io_log, Request("problems", ProblemsParams, resp))
                 /\ contest_root' = done.root
                 /\ label_map' = done.label_map
                 /\ page' = 0
                 /\ exam_by_user_id' = EmptyDict
                 /\ student_user_by_id' = EmptyDict
                 /\ pc' = "teams"
                 /\ UNCHANGED <<error_dump, result>>
    /\ UNCHANGED <<selected_problem_set_id, exam_info, contest_start_dt, before,
                   counter, output_file, calls>>

-----------------------------------------------------------------------------
(* _get_team_name, _add_team_node, _process_teams *)

GetTeamName(user_id, student_user_id, exam_map, student_map) ==
    LET name1 == IF user_id \in DOMAIN exam_map
                 THEN Strip(Get(Get(exam_map[user_id], "studentUser", EmptyDict),
                                "name", <<>>))
                 ELSE <<>>
        name2 == IF student_user_id \in DOMAIN student_map
                 THEN Strip(Get(student_map[student_user_id], "name", <<>>))
                 ELSE <<>>
    IN  IF name1 # <<>> THEN Text(name1)
        ELSE IF name2 # <<>> THEN Text(name2)
        ELSE "Team_" \o user_id

\* the children of the root after _add_team_node(member_data)
AddTeamNode(root, member_data, exam_map, student_map) ==
    LET user_id         == Get(member_data, "userId", None)
        student_user_id == Get(member_data, "studentUserId", None)
    IN  IF ~Truthy(user_id)
        THEN root
        ELSE Append(root,
                    [tag |-> "team",
                     id |-> user_id,
                     external_id |-> region_id,
                     region |-> organization,
                     name |-> GetTeamName(user_id, student_user_id, exam_map, student_map),
                     university |-> organization])

RECURSIVE TeamsLoop(_, _, _, _)
TeamsLoop(root, members, exam_map, student_map) ==
    IF members = <<>>
    THEN root
    ELSE TeamsLoop(AddTeamNode(root, Head(members), exam_map, student_map),
                   Tail(members), exam_map, student_map)

TeamsParams(pg) ==
    [exam_status |-> "UNKNOWN", page |-> pg, limit |-> RosterLimit,
     order_by |-> "startAt", asc |-> "false"]

\* mutant: a page's maps replace the earlier ones
M_MergeMapsReplaces(old, data, key) == Get(data, key, EmptyDict)

\* the two maps after the update with a page's data
MergeMaps(old, data, key) == Update(old, Get(data, key, EmptyDict))

\* one turn of the while loop; leaving the loop enters _process_submissions
ProcessTeamsPage(E) ==
    /\ pc = "teams"
    /\ page < MaxRosterPages
    /\ \E resp \in E.failures \cup {Ok(b) : b \in E.roster_pages} :
        IF SafeRequest(resp) # "ok"
        THEN /\ RaiseFrom("user-group-members", TeamsParams(page), resp)
             /\ UNCHANGED <<contest_root, page, exam_by_user_id, student_user_by_id,
                            before, counter>>
        ELSE LET data    == resp.body
                 members == Get(data, "userGroupMembers", <<>>)
                 exams   == MergeMaps(exam_by_user_id, data, "examByUserId")
                 studs   == MergeMaps(student_user_by_id, data, "studentUserById")
             IN  /\ io_log' = Append(io_log,
                                     Request("user-group-members", TeamsParams(page), resp))
                 /\ UNCHANGED <<error_dump, result>>
                 /\ IF page = 0 /\ Get(data, "total", 0) = 0
                    THEN /\ pc' = "submissions"
                         /\ before' = None
                         /\ counter' = 1
                         /\ UNCHANGED <<contest_root, page, exam_by_user_id,
                                        student_user_by_id>>
                    ELSE /\ exam_by_user_id' = exams
                         /\ student_user_by_id' = studs
                         /\ contest_root' = TeamsLoop(contest_root, members, exams, studs)
                         /\ IF Len(members) = 0 \/ Len(members) < RosterLimit
                            THEN /\ pc' = "submissions"
                                 /\ before' = None
                                 /\ counter' = 1
                                 /\ UNCHANGED page
                            ELSE /\ page' = page + 1
                                 /\ UNCHANGED <<pc, before, counter>>
    /\ UNCHANGED <<selected_problem_set_id, label_map, exam_info, contest_start_dt,
                   output_file, calls>>

-----------------------------------------------------------------------------
(* _add_submission_node *)

\* str.upper() on the compiler names the platform sends
Upper(c) ==
    CASE c = "gxx" -> "GXX"
      [] c = "Java" -> "JAVA"
      [] c = "pypy3" -> "PYPY3"
      [] OTHER -> c

\* solved, penalty and result of a platform status
Judge(pta_status) ==
    [solved  |-> IF pta_status = "ACCEPTED" THEN "true" ELSE "false",
     penalty |-> IF pta_status = "COMPILE_ERROR" THEN "false" ELSE "true",
     result  |-> IF pta_status \in DOMAIN result_map THEN result_map[pta_status] ELSE "WA"]

\* mutant: no clamp
M_RelTimeSecUnclamped(submit_at, start_dt) == IntTrunc(submit_at.t - start_dt.t)

\* rel_time_sec of a submission made at submit_at
RelTimeSec(submit_at, start_dt) ==
    LET rel_time_sec == IntTrunc(submit_at.t - start_dt.t)
    IN  IF rel_time_sec < 0 THEN 0 ELSE rel_time_sec

\* whether the submission is ignored
Ignored(sub, map) == Get(sub, "problemSetProblemId", None) \notin DOMAIN map

\* the children of the root after _add_submission_node(sub, cnt)
AddSubmissionNode(root, sub, cnt, map, start_dt) ==
    IF Ignored(sub, map)
    THEN root
    ELSE LET problem_conf == map[Get(sub, "problemSetProblemId", None)]
             judged       == Judge(Get(sub, "status", "UNKNOWN"))
             compiler     == Upper(Get(sub, "compiler", "UNKNOWN"))
             lang_id      == IF compiler \in DOMAIN compiler_map
                             THEN compiler_map[compiler] ELSE "1"
             submit_at    == parse_time(sub.submitAt)
         IN  Append(root,
                    [tag |-> "run",
                     id |-> ToString(cnt),
                     judged |-> "True",
                     language |-> lang_id,
                     problem |-> problem_conf.xml_id,
                     status |-> "done",
                     team |-> Get(sub, "userId", None),
                     time |-> ToString(RelTimeSec(submit_at, start_dt)),
                     timestamp |-> Fmt2(submit_at.t),
                     solved |-> judged.solved,
                     penalty |-> judged.penalty,
                     result |-> judged.result])

-----------------------------------------------------------------------------
(* _process_submissions *)

\* the for loop over a page
RECURSIVE SubmissionsLoop(_, _, _, _, _)
SubmissionsLoop(root, submissions, cnt, map, start_dt) ==
    IF submissions = <<>>
    THEN [root |-> root, counter |-> cnt]
    ELSE SubmissionsLoop(AddSubmissionNode(root, Head(submissions), cnt, map, start_dt),
                         Tail(submissions),
                         cnt + 1, map, start_dt)

\* mutant: the cursor is never sent
M_SubmissionsParamsNoCursor(cursor) == [limit |-> SubmissionLimit]

SubmissionsParams(cursor) ==
    IF Truthy(cursor)
    THEN [limit |-> SubmissionLimit, before |-> cursor]
    ELSE [limit |-> SubmissionLimit]

\* the requests of the current call to the submissions endpoint, with their responses
SubRequests == SelectSeq(io_log, LAMBDA e : e.op = "GET" /\ e.url = "submissions")

\* mutant: no guard against a cursor that does not advance
M_CursorAdvancesUnchecked(next_cursor, cursor) == TRUE

\* whether the loop goes on after a page that asked for more history
CursorAdvances(next_cursor, cursor) == next_cursor # cursor

\* one turn of the while loop
ProcessSubmissionsPage(E) ==
    /\ pc = "submissions"
    /\ Len(SubRequests) < MaxSubPages
    /\ \E resp \in E.failures \cup {Ok(b) : b \in E.sub_pages} :
        IF SafeRequest(resp) # "ok"
        THEN /\ RaiseFrom("submissions", SubmissionsParams(before), resp)
             /\ UNCHANGED <<contest_root, before, counter>>
        ELSE LET data        == resp.body
                 submissions == Get(data, "submissions", <<>>)
                 done        == SubmissionsLoop(contest_root, submissions, counter,
                                                label_map, contest_start_dt)
                 has_more    == Get(data, "hasBefore", FALSE)
                 next_cursor == Get(Last(submissions), "id", None)
             IN  /\ io_log' = Append(io_log,
                                     Request("submissions", SubmissionsParams(before), resp))
                 /\ UNCHANGED <<error_dump, result>>
                 /\ IF submissions = <<>>
                    THEN /\ pc' = "finalize"
                         /\ UNCHANGED <<contest_root, before, counter>>
                    ELSE /\ contest_root' = done.root
                         /\ counter' = done.counter
                         /\ IF has_more /\ CursorAdvances(next_cursor, before)
                            THEN /\ before' = next_cursor
                                 /\ UNCHANGED pc
                            ELSE /\ pc' = "finalize"
                                 /\ UNCHANGED before
    /\ UNCHANGED <<selected_problem_set_id, label_map, exam_info, contest_start_dt,
                   exam_by_user_id, student_user_by_id, page, output_file, calls>>

-----------------------------------------------------------------------------
(* _add_finalized_node, _save_xml *)

\* contest_root.find("info/length").text
InfoLength(root) ==
    root[CHOOSE i \in 1..Len(root) :
            /\ root[i].tag = "info"
            /\ \A j \in 1..(i - 1) : root[j].tag # "info"].length

AddFinalizedNode(E) ==
    /\ pc = "finalize"
    /\ \E now \in E.nows :
        contest_root' = Append(contest_root,
                               [tag |-> "finalized",
                                last_gold |-> "1",
                                last_silver |-> "1",
                                last_bronze |-> "1",
                                time |-> InfoLength(contest_root),
                                timestamp |-> Fmt1(now)])
    /\ pc' = "save"
    /\ UNCHANGED <<selected_problem_set_id, label_map, exam_info, contest_start_dt,
                   exam_by_user_id, student_user_by_id, page, before, counter,
                   output_file, error_dump, result, calls, io_log>>

\* _indent only sets whitespace around the elements; generate_contest_xml returns
SaveXml ==
    /\ pc = "save"
    /\ output_file' = [exists |-> TRUE, root |-> contest_root]
    /\ io_log' = Append(io_log, [op |-> "WRITE", url |-> "contest.xml"])
    /\ result' = "returned"
    /\ pc' = "idle"
    /\ UNCHANGED <<selected_problem_set_id, contest_root, label_map, exam_info,
                   contest_start_dt, exam_by_user_id, student_user_by_id, page, before,
                   counter, error_dump, calls>>

-----------------------------------------------------------------------------
(* The server: the responses the actions draw from.  Identifiers are present, *)
(* non-empty and identify (a listing names a problem once); timestamps are    *)
(* well-formed; a roster whose total is 0 or missing has no members;          *)
(* everything else the code reads may be missing.                             *)

Http(status, json) == [kind |-> "http", status |-> status, json |-> json]

Failures ==
    {Http(401, TRUE), Http(401, FALSE), Http(403, TRUE), Http(200, FALSE),
     [kind |-> "exception"]}

StartAt == [t |-> 2000, suffix |-> "Z"]

At(ticks) == [t |-> StartAt.t + ticks, suffix |-> "Z"]

Seqs(S, n) == UNION {[1..k -> S] : k \in 0..n}

DistinctSeqs(S, n) == {s \in Seqs(S, n) : \A i, j \in DOMAIN s : i # j => s[i] # s[j]}

\* metadata
ExamBody(fields) == [problemSet |-> fields]

ExamPlain ==
    ExamBody([name |-> "Contest", id |-> "77", startAt |-> StartAt,
              endAt |-> At(7200 * TicksPerSec), duration |-> 5400])

ExamComputed ==
    ExamBody([name |-> "Contest", id |-> "77", startAt |-> StartAt,
              endAt |-> At(7200 * TicksPerSec)])

Durations == {0, -60, 5400}

EndAts ==
    {StartAt, At(-3), At(3), At(7200 * TicksPerSec),
     [t |-> StartAt.t + 7200 * TicksPerSec, suffix |-> ""]}

ExamInfosAll ==
    {EmptyDict, ExamBody(EmptyDict), ExamBody([startAt |-> StartAt])}
    \cup {ExamBody([startAt |-> StartAt, endAt |-> e]) : e \in EndAts}
    \cup {ExamBody([startAt |-> StartAt, endAt |-> e, duration |-> d]) :
            e \in EndAts, d \in Durations}

\* problems
Problem(p_id) == [id |-> p_id, title |-> "t"]

ListingBody(ids) == [problemSetProblems |-> [i \in DOMAIN ids |-> Problem(ids[i])]]

ListingsSmall == {ListingBody(<<"p1">>), ListingBody(<<"p2", "p1">>)}

ListingsAll ==
    {EmptyDict} \cup {ListingBody(ids) : ids \in DistinctSeqs({"p1", "p2", "p3"}, MaxProblems)}

\* roster
Member(u, su) == [userId |-> u, studentUserId |-> su]

ExamEntry(name) == [studentUser |-> [name |-> name]]

RosterSmall ==
    {EmptyDict,
     [total |-> 1, userGroupMembers |-> <<Member("u1", "s1")>>,
      examByUserId |-> [u1 |-> ExamEntry(<<"Ann">>)]]}

FullPage(m) == [i \in 1..RosterLimit |-> m]

MemberPages ==
    {<<>>, <<Member("u1", "s1")>>, <<[studentUserId |-> "s1"]>>,
     <<Member("u2", "s2"), Member("u1", "s1")>>, FullPage(Member("u1", "s1"))}

ExamMaps ==
    {EmptyDict, [u1 |-> ExamEntry(<<" ", "Ann", " ">>)], [u1 |-> ExamEntry(<<" ">>)],
     [u1 |-> EmptyDict]}

StudentMaps == {EmptyDict, [s1 |-> [name |-> <<"Bob">>]], [s1 |-> [name |-> <<>>]]}

RosterAll ==
    {EmptyDict, [total |-> 0], [total |-> 1]}
    \cup {[total |-> 1, userGroupMembers |-> ms, examByUserId |-> em,
           studentUserById |-> sm] :
            ms \in MemberPages, em \in ExamMaps, sm \in StudentMaps}

\* submissions
Sub(s_id, p_id) ==
    [id |-> s_id, problemSetProblemId |-> p_id, userId |-> "u1", status |-> "ACCEPTED",
     compiler |-> "GXX", submitAt |-> At(3)]

With(r, k, v) == Put(r, k, v)

SubPage(subs, more) ==
    IF more = "absent" THEN [submissions |-> subs]
    ELSE [submissions |-> subs, hasBefore |-> (more = "true")]

SubPagesSmall ==
    {EmptyDict, SubPage(<<Sub("s1", "p1")>>, "absent"), SubPage(<<Sub("s1", "p1")>>, "true")}

PagingSubs == {Sub("s1", "p1"), Sub("s2", "p1"), Sub("s1", "p9")}

SubPagesPaging ==
    {SubPage(subs, more) :
        subs \in Seqs(PagingSubs, MaxPageLen), more \in {"absent", "false", "true"}}

Statuses ==
    DOMAIN result_map \cup {"UNKNOWN", "INTERNAL_ERROR"}

MappingSubs ==
    {With(Sub("s1", "p1"), "status", st) : st \in Statuses}
    \cup {With(Sub("s1", "p1"), "submitAt", At(d)) : d \in {-3, -1, 0, 1, 2}}
    \cup {With(Sub("s1", "p1"), "compiler", c) : c \in {"gxx", "Java", "RUST"}}
    \cup {[id |-> "s1", problemSetProblemId |-> "p1", submitAt |-> At(0)]}

SubPagesMapping ==
    {SubPage(subs, "absent") : subs \in Seqs(MappingSubs, MaxPageLen)}

Nows == {StartAt.t + 9}

-----------------------------------------------------------------------------------------------------------------------------------------------------
(* The specifications: the same generator against servers of different data *)

Server(max_calls, failures, exam_infos, listings, roster_pages, sub_pages) ==
    [problem_set_ids |-> {"77"},
     failures |-> failures,
     max_calls |-> max_calls,
     exam_infos |-> exam_infos,
     listings |-> listings,
     roster_pages |-> roster_pages,
     sub_pages |-> sub_pages,
     nows |-> Nows]

Expired == {Http(401, TRUE)}

OneListing == {ListingBody(<<"p1">>)}

NextOn(E) ==
    \/ SelectProblemSet(E)
    \/ GenerateContestXml(E)
    \/ ProcessExamInfo(E)
    \/ AddStaticNodes
    \/ ProcessProblems(E)
    \/ ProcessTeamsPage(E)
    \/ ProcessSubmissionsPage(E)
    \/ AddFinalizedNode(E)
    \/ SaveXml

\* repeated calls on one generator, every kind of failed request
Next ==
    NextOn(Server(MaxCalls, Failures, {ExamPlain, ExamComputed}, ListingsSmall,
                  RosterSmall, SubPagesSmall))

Spec == Init /\ [][Next]_vars

\* one call, every shape of the metadata
NextInfo == NextOn(Server(1, Expired, ExamInfosAll, OneListing, {EmptyDict}, {EmptyDict}))

SpecInfo == Init /\ [][NextInfo]_vars

\* repeated calls, every listing
NextProblems ==
    NextOn(Server(MaxCalls, Expired, {ExamPlain}, ListingsAll, {EmptyDict}, {EmptyDict}))

SpecProblems == Init /\ [][NextProblems]_vars

\* one call, every shape of a roster page
NextRoster == NextOn(Server(1, Expired, {ExamPlain}, OneListing, RosterAll, {EmptyDict}))

SpecRoster == Init /\ [][NextRoster]_vars

\* one call, the pages of the submission history
NextPaging ==
    NextOn(Server(1, Expired, {ExamPlain}, OneListing, {EmptyDict}, SubPagesPaging))

SpecPaging == Init /\ [][NextPaging]_vars

\* one call, every kind of submission
NextRuns ==
    NextOn(Server(1, Expired, {ExamPlain}, OneListing, {EmptyDict}, SubPagesMapping))

SpecRuns == Init /\ [][NextRuns]_vars

-----------------------------------------------------------------------------
(* Views of the state used by the properties *)

NodesOf(root, tag) == SelectSeq(root, LAMBDA n : n.tag = tag)

IsOk(e) == e.op = "GET" /\ SafeRequest(e.resp) = "ok"

\* the submissions of a logged response, its hasBefore flag and the cursor it was asked with
PageSubs(e) == Get(e.resp.body, "submissions", <<>>)

PageHasBefore(e) == Get(e.resp.body, "hasBefore", FALSE)

\* all the submissions received so far in the current call, in arrival order
RECURSIVE Received(_)
Received(reqs) ==
    IF reqs = <<>> THEN <<>>
    ELSE (IF IsOk(Head(reqs)) THEN PageSubs(Head(reqs)) ELSE <<>>) \o Received(Tail(reqs))

InSubmissions == pc \in {"submissions", "finalize", "save"}

-----------------------------------------------------------------------------
(* C1: a submission whose problem id is not in the lookup emits no run node, *)
(* and the run nodes of the other submissions, run ids included, are the     *)
(* ones the same history without the dropped submissions would give.         *)
C1_DroppedSubmissionChangesNothing ==
    InSubmissions =>
        LET kept == SelectSeq(Received(SubRequests), LAMBDA sub : ~Ignored(sub, label_map))
        IN  NodesOf(contest_root, "run")
              = NodesOf(SubmissionsLoop(<<>>, kept, 1, label_map, contest_start_dt).root, "run")

-----------------------------------------------------------------------------
(* C2: a page with hasBefore true whose last id is the cursor it was asked   *)
(* with ends the loop: it is the last request, nothing is raised, and the    *)
(* call goes on to the finalized node.                                       *)
Stalled(e) ==
    /\ IsOk(e)
    /\ PageSubs(e) # <<>>
    /\ PageHasBefore(e)
    /\ "before" \in DOMAIN e.params
    /\ Last(PageSubs(e)).id = e.params.before

C2_CursorStallStops ==
    \A i \in DOMAIN SubRequests :
        Stalled(SubRequests[i]) =>
            /\ i = Len(SubRequests)
            /\ pc \in {"finalize", "save", "idle"}
            /\ pc = "save" => Last(contest_root).tag = "finalized"
            /\ pc = "idle" => result = "returned" /\ Last(contest_root).tag = "finalized"

C2_Witness ==
    /\ pc = "idle"
    /\ result = "returned"
    /\ SubRequests # <<>>
    /\ Stalled(Last(SubRequests))

-----------------------------------------------------------------------------
(* C6: the first submissions request carries no before cursor; a further     *)
(* request follows only a non-empty page with hasBefore true and carries the *)
(* id of that page's last submission; an empty page or a page without        *)
(* hasBefore true is the last one.                                           *)
C6_PaginationProtocol ==
    LET reqs == SubRequests
    IN  /\ reqs # <<>> => "before" \notin DOMAIN reqs[1].params
        /\ \A i \in 2..Len(reqs) :
              /\ IsOk(reqs[i - 1])
              /\ PageSubs(reqs[i - 1]) # <<>>
              /\ PageHasBefore(reqs[i - 1])
              /\ "before" \in DOMAIN reqs[i].params
              /\ reqs[i].params.before = Last(PageSubs(reqs[i - 1])).id
        /\ \A i \in DOMAIN reqs :
              IsOk(reqs[i]) /\ (PageSubs(reqs[i]) = <<>> \/ ~PageHasBefore(reqs[i]))
                => i = Len(reqs) /\ pc # "submissions"

C6_Witness ==
    /\ pc = "finalize"
    /\ Len(SubRequests) = 2
    /\ PageSubs(SubRequests[2]) = <<>>
    /\ Len(PageSubs(SubRequests[1])) = 2

-----------------------------------------------------------------------------
(* C3: a 401 response to any request of generate_contest_xml raises          *)
(* PTAAuthError, is the last thing the call does, and the output file is     *)
(* written only by a call all of whose requests succeeded.                   *)
Is401(e) == e.op = "GET" /\ e.resp.kind = "http" /\ e.resp.status = 401

AllFetchesOk(log) == \A j \in DOMAIN log : log[j].op = "GET" => IsOk(log[j])

C3_Halted ==
    /\ \A i \in DOMAIN io_log :
          Is401(io_log[i]) => i = Len(io_log) /\ pc = "idle" /\ result = "PTAAuthError"
    /\ \A i \in DOMAIN io_log :
          io_log[i].op = "WRITE" => AllFetchesOk(SubSeq(io_log, 1, i - 1))

C3_UnauthorizedHaltsWithoutOutput ==
    /\ []C3_Halted
    /\ [][output_file' # output_file =>
            /\ pc = "save"
            /\ AllFetchesOk(io_log)
            /\ Len(SelectSeq(io_log, LAMBDA e : e.op = "GET")) >= 4]_vars

C3_Witness ==
    /\ calls = 2
    /\ pc = "idle"
    /\ result = "PTAAuthError"
    /\ Len(io_log) = 5
    /\ Last(io_log).url = "submissions"
    /\ ~Last(io_log).resp.json
    /\ output_file.exists
    /\ output_file.root # contest_root

-----------------------------------------------------------------------------
(* C5: the children of the root are, in this order, one info, one region,    *)
(* 11 judgement, 4 language, the problems, the teams, the runs and one       *)
(* finalized node, in every document written, the second call's included.    *)
Rank(tag) ==
    CASE tag = "info" -> 1
      [] tag = "region" -> 2
      [] tag = "judgement" -> 3
      [] tag = "language" -> 4
      [] tag = "problem" -> 5
      [] tag = "team" -> 6
      [] tag = "run" -> 7
      [] tag = "finalized" -> 8

SectionsInOrder(root) ==
    \A i, j \in DOMAIN root : i < j => Rank(root[i].tag) <= Rank(root[j].tag)

Count(root, tag) == Len(NodesOf(root, tag))

FixedSections(root) ==
    /\ Count(root, "info") = 1
    /\ Count(root, "region") = 1
    /\ Count(root, "judgement") = 11
    /\ Count(root, "language") = 4
    /\ Count(root, "finalized") = 1

C5_SectionOrder ==
    /\ SectionsInOrder(contest_root)
    /\ output_file.exists => SectionsInOrder(output_file.root) /\ FixedSections(output_file.root)
    /\ pc = "idle" /\ result = "returned" => output_file = [exists |-> TRUE, root |-> contest_root]

C5_Witness ==
    /\ calls = 2
    /\ pc = "idle"
    /\ result = "returned"
    /\ Count(contest_root, "problem") = 2
    /\ Count(contest_root, "team") = 1
    /\ Count(contest_root, "run") = 2

-----------------------------------------------------------------------------
(* C4: the duration is the explicit field if positive, else end - start if   *)
(* positive, else 18000 seconds; it is always positive.                      *)
ClaimedDuration(problem_set) ==
    LET explicit == Get(problem_set, "duration", 0)
        start_dt == parse_time(Get(problem_set, "startAt", DefaultTime))
        end_dt   == parse_time(Get(problem_set, "endAt", DefaultTime))
        computed == IntTrunc(end_dt.t - start_dt.t)
    IN  IF explicit > 0 THEN explicit
        ELSE IF start_dt.aware = end_dt.aware /\ computed > 0 THEN computed
        ELSE DefaultDuration

C4_DurationResolved ==
    contest_root # <<>> =>
        LET claimed == ClaimedDuration(Get(exam_info, "problemSet", EmptyDict))
        IN  claimed > 0 /\ contest_root[1].length = DurationStr(claimed)

-----------------------------------------------------------------------------
(* C7: the i-th entry of the listing gets xml id str(i) and the i-th letter  *)
(* from "A", in the problem nodes and in the lookup; the lookup changes      *)
(* nowhere else in the call.                                                 *)
AfterProblems ==
    \/ pc \in {"teams", "submissions", "finalize", "save"}
    \/ pc = "idle" /\ result = "returned"

Listing ==
    LET reqs == SelectSeq(io_log, LAMBDA e : e.op = "GET" /\ e.url = "problems")
    IN  Get(reqs[1].resp.body, "problemSetProblems", <<>>)

C7_Labelled ==
    AfterProblems =>
        LET nodes == NodesOf(contest_root, "problem")
        IN  /\ Len(nodes) = Len(Listing)
            /\ \A i \in DOMAIN Listing :
                  /\ nodes[i].id = ToString(i)
                  /\ nodes[i].letter = Alphabet[i]
                  /\ Listing[i].id \in DOMAIN label_map
                  /\ label_map[Listing[i].id] = [xml_id |-> ToString(i), letter |-> Alphabet[i]]

C7_ProblemLabels ==
    /\ []C7_Labelled
    /\ [][pc # "problems" => label_map' = label_map]_vars

C7_Witness ==
    /\ calls = 2
    /\ pc = "save"
    /\ Len(Listing) = 2
    /\ \E p_id \in DOMAIN label_map : \A i \in DOMAIN Listing : Listing[i].id # p_id

-----------------------------------------------------------------------------
(* C8: the relative time of every run node is submitAt minus contest start   *)
(* in whole seconds when that is not negative, and 0 when the submission     *)
(* precedes contest start; it is never negative.                             *)
Kept == SelectSeq(Received(SubRequests), LAMBDA sub : ~Ignored(sub, label_map))

Abs(n) == IF n < 0 THEN -n ELSE n

C8_RelativeTimeNotNegative ==
    InSubmissions =>
        LET runs == NodesOf(contest_root, "run")
        IN  /\ Len(runs) = Len(Kept)
            /\ \A i \in DOMAIN runs :
                  LET diff == Kept[i].submitAt.t - contest_start_dt.t
                  IN  /\ diff >= 0 => runs[i].time = ToString(diff \div TicksPerSec)
                      /\ diff < 0 => runs[i].time = "0"
                      /\ \E n \in 0..Abs(diff) : runs[i].time = ToString(n)

C8_Witness ==
    /\ pc = "finalize"
    /\ Len(Kept) = 2
    /\ Kept[1].submitAt.t - contest_start_dt.t = -3
    /\ Kept[2].submitAt.t - contest_start_dt.t = 2
    /\ NodesOf(contest_root, "run")[1].time = "0"
    /\ NodesOf(contest_root, "run")[2].time = "1"

-----------------------------------------------------------------------------
(* C10: the result of every run node is the acronym of one of the judgement  *)
(* nodes, and the run's solved and penalty flags are that judgement's.       *)
C10_RunsAgreeWithJudgements ==
    \A i \in DOMAIN contest_root :
        contest_root[i].tag = "run" =>
            \E j \in DOMAIN contest_root :
                /\ contest_root[j].tag = "judgement"
                /\ contest_root[j].acronym = contest_root[i].result
                /\ contest_root[j].solved = contest_root[i].solved
                /\ contest_root[j].penalty = contest_root[i].penalty

-----------------------------------------------------------------------------
(* C9: every roster member with a user id gets one team node with that id,   *)
(* named from the maps accumulated up to the member's page: the exam-by-user *)
(* student name, else the student-by-id name, else "Team_<user id>"; a       *)
(* member without user id gets none.                                         *)
RosterRequests ==
    SelectSeq(io_log, LAMBDA e : e.op = "GET" /\ e.url = "user-group-members" /\ IsOk(e))

\* the union of a map over the first n pages, later pages winning
RECURSIVE Accumulated(_, _, _)
Accumulated(reqs, n, key) ==
    IF n = 0 THEN EmptyDict
    ELSE Update(Accumulated(reqs, n - 1, key), Get(reqs[n].resp.body, key, EmptyDict))

\* the name the claim gives: the first non-empty of the two names, taken as
\* sent, or (stripped) with surrounding whitespace removed first
ClaimedName(member, exam_map, student_map, stripped) ==
    LET name1 == IF member.userId \in DOMAIN exam_map
                 THEN Get(Get(exam_map[member.userId], "studentUser", EmptyDict), "name", <<>>)
                 ELSE <<>>
        name2 == IF Get(member, "studentUserId", None) \in DOMAIN student_map
                 THEN Get(student_map[member.studentUserId], "name", <<>>)
                 ELSE <<>>
        text1 == IF stripped THEN Strip(name1) ELSE name1
        text2 == IF stripped THEN Strip(name2) ELSE name2
    IN  IF text1 # <<>> THEN Text(text1)
        ELSE IF text2 # <<>> THEN Text(text2)
        ELSE "Team_" \o member.userId

IdAndName(node) == [id |-> node.id, name |-> node.name]

\* the teams of pages from..Len(reqs), each member named from the maps so far
RECURSIVE TeamsOfPages(_, _, _)
TeamsOfPages(reqs, from, stripped) ==
    IF from > Len(reqs) THEN <<>>
    ELSE LET members == SelectSeq(Get(reqs[from].resp.body, "userGroupMembers", <<>>),
                                  LAMBDA m : "userId" \in DOMAIN m)
             exams   == Accumulated(reqs, from, "examByUserId")
             studs   == Accumulated(reqs, from, "studentUserById")
         IN  [i \in DOMAIN members |->
                [id |-> members[i].userId,
                 name |-> ClaimedName(members[i], exams, studs, stripped)]]
             \o TeamsOfPages(reqs, from + 1, stripped)

TeamsEmitted ==
    LET teams == NodesOf(contest_root, "team")
    IN  [i \in DOMAIN teams |-> IdAndName(teams[i])]

InRoster == pc \in {"teams", "submissions", "finalize", "save"}

FirstPageCounts ==
    RosterRequests # <<>> /\ Get(RosterRequests[1].resp.body, "total", 0) # 0

SelectFailed(log) ==
    /\ Len(log) = 1
    /\ log[1].url = "exams"
    /\ SafeRequest(log[1].resp) # "ok"

C11_FailedSelectionKeepsId ==
    [][(pc = "idle" /\ SelectFailed(io_log'))
           => selected_problem_set_id' = selected_problem_set_id]_vars

====
